---- MODULE Spec2Model ----
(***************************************************************************)
(* Transactional sales / inventory ledger of the POS backend:              *)
(* saleService (createSale, voidSale, createReturn), inventoryService      *)
(* (createMovement, addEntry, adjustStock) and sequenceService, run by     *)
(* concurrent request handlers against one PostgreSQL store (READ          *)
(* COMMITTED: every statement reads the latest committed rows plus the     *)
(* transaction's own writes; an UPDATE holds the row's lock until the      *)
(* transaction ends).                                                      *)
(***************************************************************************)
EXTENDS Integers, Sequences, FiniteSets, TLC

\* ------------------------------------------------------------------ bounds
MaxCalls == 4        \* request handlers started in one behaviour
MaxStarted == 3      \* handlers started in one behaviour from the empty store
MaxReturns == 2      \* createReturn handlers started when only returns run
MaxConcurrent == 2   \* request handlers in flight at the same time
InitialStock == 2    \* currentStock of every product when the run starts
MaxQty == 2          \* largest quantity on a request line
MaxLines == 2        \* most lines in one request
MaxAudited == 2      \* handlers started when the audit log may fail
MaxLogins == 3       \* login requests in one behaviour
MaxNow == 4          \* the clock stops here, in minutes

Calls == 1..MaxCalls
Products == {"p1", "p2"}

\* ------------------------------------------------- decimal.js arithmetic
\* A Decimal is coefficient n and exponent e: the value n * 10^(-e), kept
\* without trailing zeros as decimal.js keeps it.
RECURSIVE Pow10(_)
Pow10(k) == IF k <= 0 THEN 1 ELSE 10 * Pow10(k - 1)

RECURSIVE DNorm(_)
DNorm(d) ==
  IF d.e > 0 /\ d.n % 10 = 0
  THEN DNorm([n |-> d.n \div 10, e |-> d.e - 1])
  ELSE d

Dec(n, e) == DNorm([n |-> n, e |-> e])
DZero == [n |-> 0, e |-> 0]
DMaxE(a, b) == IF a.e >= b.e THEN a.e ELSE b.e
DPlus(a, b) ==
  LET e == DMaxE(a, b)
  IN  Dec(a.n * Pow10(e - a.e) + b.n * Pow10(e - b.e), e)
DMinus(a, b) ==
  LET e == DMaxE(a, b)
  IN  Dec(a.n * Pow10(e - a.e) - b.n * Pow10(e - b.e), e)
DTimes(a, b) == Dec(a.n * b.n, a.e + b.e)
DLess(a, b) ==
  LET e == DMaxE(a, b)
  IN  a.n * Pow10(e - a.e) < b.n * Pow10(e - b.e)
DAbs(k) == IF k < 0 THEN -k ELSE k
\* toDecimalPlaces(k) under decimal.js's default rounding, ROUND_HALF_UP
DToDecimalPlaces(d, k) ==
  IF d.e <= k THEN d
  ELSE LET f == Pow10(d.e - k)
           q == DAbs(d.n) \div f
           r == DAbs(d.n) % f
           m == IF 2 * r >= f THEN q + 1 ELSE q
       IN  Dec(IF d.n < 0 THEN -m ELSE m, k)
\* dividedBy: long division, exact when the expansion ends within DivPlaces
\* decimal places and rounded half up at DivPlaces places otherwise
DivPlaces == 6
RECURSIVE DDivDigits(_, _, _, _)
DDivDigits(q, r, den, k) ==
  IF r = 0 \/ k = DivPlaces
  THEN [q |-> IF 2 * r >= den THEN q + 1 ELSE q, k |-> k]
  ELSE DDivDigits(q * 10 + ((r * 10) \div den), (r * 10) % den, den, k + 1)
RECURSIVE DGcd(_, _)
DGcd(a, b) == IF b = 0 THEN a ELSE DGcd(b, a % b)
DDividedBy(a, b) ==
  LET e == DMaxE(a, b)
      num0 == DAbs(a.n) * Pow10(e - a.e)
      den0 == DAbs(b.n) * Pow10(e - b.e)
      g == DGcd(num0, den0)
      num == num0 \div g
      den == den0 \div g
      d == DDivDigits(num \div den, num % den, den, 0)
  IN  Dec(IF (a.n < 0) # (b.n < 0) THEN -d.q ELSE d.q, d.k)

\* ------------------------------------------------------- reference data
\* product rows as seeded: name, sku, salePrice, taxRate, isActive
\* (currentStock is the variable stock)
ProductRow(p) ==
  IF p = "p1"
  THEN [name |-> "n1", sku |-> "s1", salePrice |-> Dec(100, 0),
        taxRate |-> Dec(19, 2), isActive |-> TRUE]
  ELSE [name |-> "n2", sku |-> "s2", salePrice |-> Dec(300, 0),
        taxRate |-> Dec(10, 2), isActive |-> TRUE]

RECEIPT == "receipt_number"
RETURN == "return_number"
SeqNames == {RECEIPT, RETURN}
NoRow == -1          \* the sequence row does not exist yet

\* ------------------------------------------------------------ request inputs
\* percentages and amounts are Decimals
DiscountPercents == {DZero}
GlobalDiscountPercents == {DZero}
AmountsPaid == {Dec(2000, 0)}
Reasons == {"", "motivo"}

SaleLines ==
  [productId : Products, quantity : 1..MaxQty, discountPercent : DiscountPercents]
ReturnLines == [productId : Products, quantity : 1..MaxQty]
SeqsUpTo(S, n) == UNION {[1..k -> S] : k \in 1..n}

\* ------------------------------------------------------------------- state
VARIABLES
  stock,               \* product.currentStock, committed
  movements,           \* InventoryMovement rows, committed, in creation order
  sales,               \* Sale rows with their SaleItems, by sale id
  returns,             \* Return rows with their ReturnItems, committed
  sequences,           \* Sequence rows: currentValue, or NoRow
  allowNegativeStock,  \* storeConfig.allowNegativeStock
  catalog,             \* Product rows: name, sku, salePrice, taxRate, isActive
  auditLog,            \* AuditLog rows: action, entity, entityId and the
                       \* request that wrote the row (0: a product edit)
  calls,               \* the request handlers: operation, inputs, position
  tx,                  \* the uncommitted writes of each handler's $transaction
  issued,              \* values returned by getNextValue, in order, per name
  user,                \* the User row: failedAttempts, lockedUntil, isActive,
                       \* and the number of its refresh tokens
  logins,              \* the login requests: password right or wrong, the
                       \* failedAttempts they read, position and response
  now,                 \* the clock, in minutes
  failedLogins         \* logins refused for a wrong password since the last
                       \* successful login or password reset

authVars == <<user, logins, now, failedLogins>>
ledgerVars ==
  <<stock, movements, sales, returns, sequences, allowNegativeStock, catalog,
    calls, tx, issued>>
vars == <<ledgerVars, auditLog, authVars>>

NoSale ==
  [receiptNumber |-> 0, status |-> "NONE", items |-> <<>>,
   subtotal |-> DZero, discountAmount |-> DZero, taxAmount |-> DZero,
   total |-> DZero, amountPaid |-> DZero, changeAmount |-> DZero,
   voidReason |-> "", voidedBy |-> 0]

IdleCall ==
  [op |-> "none", pc |-> "idle", items |-> <<>>, products |-> <<>>,
   amountPaid |-> DZero,
   globalDiscountPercent |-> DZero, reason |-> "", saleId |-> 0, i |-> 0,
   previousStock |-> 0, quantityChange |-> 0, found |-> FALSE, num |-> 0,
   stale |-> <<>>, result |-> ""]

EmptyTx ==
  [movs |-> <<>>, wrote |-> {}, stock |-> [p \in Products |-> 0],
   newSale |-> <<>>, itemUpd |-> {}, saleUpd |-> <<>>, newReturn |-> <<>>]

Running(c) == calls[c].pc \notin {"idle", "done"}

\* ------------------------------------------------- createSale: the pricing
\* Each step of the computation hands its value to the next as an argument,
\* in the order the source computes them.

\* lines 79-91: the SaleItem row of one line, with what the sale accumulates
LineResult(line, product, lineDiscount, lineSubtotalAfterDiscount, lineTax) ==
  [lineSubtotalAfterDiscount |-> lineSubtotalAfterDiscount,
   lineTax |-> lineTax,
   saleItem |->
     [productId |-> line.productId,
      productName |-> product.name,
      productSku |-> product.sku,
      quantity |-> line.quantity,
      returnedQty |-> 0,
      unitPrice |-> DToDecimalPlaces(product.salePrice, 2),
      discountPercent |-> DToDecimalPlaces(line.discountPercent, 2),
      discountAmount |-> DToDecimalPlaces(lineDiscount, 2),
      taxRate |-> DToDecimalPlaces(product.taxRate, 4),
      taxAmount |-> DToDecimalPlaces(lineTax, 2),
      subtotal |-> DToDecimalPlaces(lineSubtotalAfterDiscount, 2),
      total |-> DToDecimalPlaces(DPlus(lineSubtotalAfterDiscount, lineTax), 2)]]

\* line 73: lineTax = lineSubtotalAfterDiscount * taxRate
LineTaxed(line, product, lineDiscount, lineSubtotalAfterDiscount) ==
  LineResult(line, product, lineDiscount, lineSubtotalAfterDiscount,
             DTimes(lineSubtotalAfterDiscount, product.taxRate))

\* lines 71-72: lineDiscount = lineSubtotal * discountPercent / 100
LineDiscounted(line, product, lineSubtotal, lineDiscount) ==
  LineTaxed(line, product, lineDiscount, DMinus(lineSubtotal, lineDiscount))

LineSubtotalled(line, product, lineSubtotal) ==
  LineDiscounted(line, product, lineSubtotal,
                 DTimes(DTimes(lineSubtotal, line.discountPercent),
                        Dec(1, 2)))

\* lines 62-70: lineSubtotal = unitPrice * quantity
LinePriced(line, product) ==
  LineSubtotalled(line, product,
                  DTimes(product.salePrice, Dec(line.quantity, 0)))

\* line 62: the line's product among the rows fetched at lines 17-20
LineCalc(products, line) == LinePriced(line, products[line.productId])

RECURSIVE DSum(_)
DSum(ds) == IF ds = <<>> THEN DZero ELSE DPlus(ds[1], DSum(Tail(ds)))

\* lines 103-110: the tax of one stored line after the global discount
AdjustedTax(item, globalDiscount, subtotal) ==
  LET proportionalDiscount ==
        DDividedBy(DTimes(globalDiscount, item.subtotal),
                   DPlus(subtotal, globalDiscount))
      adjustedSubtotal == DMinus(item.subtotal, proportionalDiscount)
  IN  DTimes(adjustedSubtotal, item.taxRate)

\* lines 116-141: the change, the payment check and the values of the Sale row
SalePaid(saleItems, subtotal, globalDiscount, totalTax, total, amountPaid) ==
  [insufficient |-> DLess(amountPaid, total),
   saleItems |-> saleItems,
   subtotal |-> DToDecimalPlaces(subtotal, 2),
   discountAmount |-> DToDecimalPlaces(globalDiscount, 2),
   taxAmount |-> DToDecimalPlaces(totalTax, 2),
   total |-> DToDecimalPlaces(total, 2),
   amountPaid |-> DToDecimalPlaces(amountPaid, 2),
   changeAmount |->
     DToDecimalPlaces(IF DLess(DZero, DMinus(amountPaid, total))
                      THEN DMinus(amountPaid, total) ELSE DZero, 2)]

\* lines 114-115: total = subtotal + totalTax
SaleTotalled(saleItems, paid, subtotal, globalDiscount, totalTax) ==
  SalePaid(saleItems, subtotal, globalDiscount, totalTax,
           DPlus(subtotal, totalTax), paid)

\* lines 100-111: subtotal less the global discount, tax recomputed per line
GlobalDiscounted(saleItems, paid, subtotal, globalDiscount) ==
  SaleTotalled(saleItems, paid, subtotal, globalDiscount,
               DSum([k \in 1..Len(saleItems) |->
                       AdjustedTax(saleItems[k], globalDiscount, subtotal)]))

\* lines 94-112
SaleSummed(saleItems, globalDiscountPercent, paid, subtotal, totalTax) ==
  IF DLess(DZero, globalDiscountPercent)
  THEN GlobalDiscounted(
         saleItems, paid,
         DMinus(subtotal,
                DTimes(DTimes(subtotal, globalDiscountPercent), Dec(1, 2))),
         DTimes(DTimes(subtotal, globalDiscountPercent), Dec(1, 2)))
  ELSE SaleTotalled(saleItems, paid, subtotal, DZero, totalTax)

SaleLinesCalc(calc, globalDiscountPercent, paid) ==
  SaleSummed([k \in 1..Len(calc) |-> calc[k].saleItem],
             globalDiscountPercent, paid,
             DSum([k \in 1..Len(calc) |-> calc[k].lineSubtotalAfterDiscount]),
             DSum([k \in 1..Len(calc) |-> calc[k].lineTax]))

\* lines 56-141: the totals of a sale
SaleTotals(products, items, globalDiscountPercent, paid) ==
  SaleLinesCalc([k \in 1..Len(items) |-> LineCalc(products, items[k])],
                globalDiscountPercent, paid)

\* lines 128-151: the Sale row with its SaleItems
SaleRow(receiptNumber, t) ==
  [receiptNumber |-> receiptNumber, status |-> "COMPLETED",
   items |-> t.saleItems, subtotal |-> t.subtotal,
   discountAmount |-> t.discountAmount, taxAmount |-> t.taxAmount,
   total |-> t.total, amountPaid |-> t.amountPaid,
   changeAmount |-> t.changeAmount, voidReason |-> "", voidedBy |-> 0]

\* ------------------------------------------------------ handler bookkeeping
\* a handler starts in the lowest free slot while fewer than MaxConcurrent run
CanStart(c) ==
  /\ calls[c].pc = "idle"
  /\ \A d \in Calls : d < c => calls[d].pc # "idle"
  /\ Cardinality({d \in Calls : Running(d)}) < MaxConcurrent

\* the handler returns or throws: what is kept of it is the operation, the sale
\* it was about, the number it drew, the line it stopped at and its outcome
Finished(call, result) ==
  [IdleCall EXCEPT !.pc = "done", !.op = call.op, !.saleId = call.saleId,
                   !.num = call.num, !.i = call.i, !.result = result]

\* rows locked by the uncommitted UPDATEs of another handler's transaction
ProductLockedByOther(c, p) == \E d \in Calls \ {c} : p \in tx[d].wrote
SaleLockedByOther(c, id) ==
  \E d \in Calls \ {c} : tx[d].saleUpd # <<>> /\ calls[d].saleId = id
ItemLockedByOther(c, id, k) ==
  \E d \in Calls \ {c} :
    calls[d].saleId = id /\ \E u \in tx[d].itemUpd : u[1] = k

\* product.currentStock as a statement of handler c reads it
StockView(c, p) == IF p \in tx[c].wrote THEN tx[c].stock[p] ELSE stock[p]

\* ------------------------------------------------------------ sequenceService
\* getNextValue, first half of the upsert: look the row up
SeqName(c) == IF calls[c].op = "sale" THEN RECEIPT ELSE RETURN
SeqFind(c) ==
  /\ calls[c].pc = "seq_find"
  /\ calls' = [calls EXCEPT ![c].pc = "seq_write",
                            ![c].found = sequences[SeqName(c)] # NoRow]
  /\ UNCHANGED <<stock, movements, sales, returns, sequences,
                 allowNegativeStock, catalog, auditLog, tx, issued,
                 authVars>>

\* variant: the insert of a caller that found no row overwrites the row
\* another caller inserted meanwhile
UpsertValueOverwriting(name, found) ==
  IF found THEN sequences[name] + 1 ELSE 1

\* variant: the row is created with currentValue 0
UpsertValueFromZero(name, found) ==
  IF found THEN sequences[name] + 1
  ELSE IF sequences[name] = NoRow THEN 0 ELSE NoRow

\* getNextValue, second half: increment the row found, or insert the row with
\* 1; the insert fails on the primary key when another caller inserted first
UpsertValue(name, found) ==
  IF found THEN sequences[name] + 1
  ELSE IF sequences[name] = NoRow THEN 1 ELSE NoRow

\* getCurrentValue: sequence?.currentValue || 0
getCurrentValue(name) ==
  IF sequences[name] = NoRow THEN 0 ELSE sequences[name]

\* ------------------------------------------------------------- createSale
\* lines 26-47: the first input line that fails the pre-validation, 0 if none
RECURSIVE FirstInvalid(_, _)
FirstInvalid(items, k) ==
  IF k > Len(items) THEN 0
  ELSE IF ~catalog[items[k].productId].isActive THEN k
  ELSE IF stock[items[k].productId] < items[k].quantity /\ ~allowNegativeStock
       THEN k
  ELSE FirstInvalid(items, k + 1)

\* a createSale rejected before its transaction: the request is kept with the
\* error it was answered with
Rejected(call, result) == [Finished(call, result) EXCEPT !.items = call.items]

\* lines 11-47: fetch the products and pre-validate, outside any transaction;
\* productIds has one entry per line, findMany returns each existing product
\* once
CreateSaleStart(c, items, paid, gdp) ==
  /\ CanStart(c)
  /\ LET productIds == [k \in 1..Len(items) |-> items[k].productId]
         products == {p \in Products : \E k \in 1..Len(items) : productIds[k] = p}
         bad == FirstInvalid(items, 1)
         call == [IdleCall EXCEPT !.op = "sale", !.items = items,
                                  !.products = catalog,
                                  !.amountPaid = paid,
                                  !.globalDiscountPercent = gdp,
                                  !.saleId = c]
     IN  calls' = [calls EXCEPT ![c] =
           IF Cardinality(products) # Len(productIds)
           THEN Rejected(call, "product_not_found")
           ELSE IF bad # 0 /\ ~catalog[items[bad].productId].isActive
           THEN Rejected(call, "product_inactive")
           ELSE IF bad # 0 THEN Rejected(call, "insufficient_stock")
           ELSE [call EXCEPT !.pc = "seq_find"]]
  /\ UNCHANGED <<stock, movements, sales, returns, sequences,
                 allowNegativeStock, catalog, auditLog, tx, issued,
                 authVars>>

\* lines 50-151: inside $transaction, take the receipt number (committed by
\* getNextValue's own transaction), price the sale, check the payment and
\* create the Sale and SaleItem rows
SaleNextReceipt(c) ==
  /\ calls[c].pc = "seq_write" /\ calls[c].op = "sale"
  /\ LET receiptNumber == UpsertValue(RECEIPT, calls[c].found)
         t == SaleTotals(calls[c].products, calls[c].items,
                         calls[c].globalDiscountPercent,
                         calls[c].amountPaid)
     IN  IF receiptNumber = NoRow
         THEN /\ calls' = [calls EXCEPT ![c] = Finished(@, "sequence_conflict")]
              /\ UNCHANGED <<sequences, issued, tx>>
         ELSE /\ sequences' = [sequences EXCEPT ![RECEIPT] = receiptNumber]
              /\ issued' = [issued EXCEPT ![RECEIPT] = Append(@, receiptNumber)]
              /\ IF t.insufficient
                 THEN /\ calls' = [calls EXCEPT ![c] =
                            Finished([@ EXCEPT !.num = receiptNumber],
                                     "insufficient_payment")]
                      /\ UNCHANGED tx
                 ELSE /\ calls' = [calls EXCEPT ![c].pc = "mov_read",
                                                ![c].num = receiptNumber,
                                                ![c].i = 1]
                      /\ tx' = [tx EXCEPT ![c].newSale = <<SaleRow(receiptNumber, t)>>]
  /\ UNCHANGED <<stock, movements, sales, returns, allowNegativeStock, catalog, auditLog,
                 authVars>>

\* ---------------------------------------------- inventoryService.createMovement
InTx(c) == calls[c].op \in {"sale", "void", "return"}

\* the line the handler's current createMovement call is about
MovLine(c) ==
  IF calls[c].op = "void" THEN sales[calls[c].saleId].items[calls[c].i]
  ELSE calls[c].items[calls[c].i]
MovCount(c) ==
  IF calls[c].op = "void" THEN Len(sales[calls[c].saleId].items)
  ELSE Len(calls[c].items)
MovType(c) ==
  CASE calls[c].op = "sale" -> "SALE"
    [] calls[c].op = "void" -> "VOID"
    [] calls[c].op = "return" -> "RETURN"
    [] calls[c].op = "entry" -> "ENTRY"
    [] OTHER -> "ADJUSTMENT"

\* lines 794-810
QuantityChange(type, quantity) ==
  CASE type \in {"ENTRY", "RETURN", "VOID"} -> DAbs(quantity)
    [] type = "SALE" -> -DAbs(quantity)
    [] OTHER -> quantity

\* variant: a void restores what is left of the item after its returns
MovQuantityChangeRemaining(c) ==
  IF calls[c].op = "adjust" THEN QuantityChange("ADJUSTMENT", calls[c].quantityChange)
  ELSE IF calls[c].op = "void"
  THEN QuantityChange("VOID", MovLine(c).quantity - MovLine(c).returnedQty)
  ELSE QuantityChange(MovType(c), MovLine(c).quantity)

MovQuantityChange(c) ==
  IF calls[c].op = "adjust" THEN QuantityChange("ADJUSTMENT", calls[c].quantityChange)
  ELSE QuantityChange(MovType(c), MovLine(c).quantity)

\* variant: the negative stock check is missing
RefusedNever(newStock) == FALSE

\* lines 812-826: the movement is refused when it would leave negative stock
Refused(newStock) == newStock < 0 /\ ~allowNegativeStock

\* variant: the refusal is swallowed inside the transaction callback, which
\* then commits what it wrote so far
MovReadCommitting(c) ==
  /\ calls[c].pc = "mov_read"
  /\ LET previousStock == StockView(c, MovLine(c).productId)
         newStock == previousStock + MovQuantityChange(c)
     IN  IF Refused(newStock)
         THEN /\ calls' = [calls EXCEPT ![c] = Finished(@, "insufficient_stock")]
              /\ tx' = [tx EXCEPT ![c] = EmptyTx]
              /\ movements' = movements \o tx[c].movs
              /\ stock' = [p \in Products |->
                             IF p \in tx[c].wrote THEN tx[c].stock[p]
                             ELSE stock[p]]
         ELSE /\ calls' = [calls EXCEPT ![c].pc = "mov_write",
                                        ![c].previousStock = previousStock]
              /\ UNCHANGED <<tx, movements, stock>>
  /\ UNCHANGED <<sales, returns, sequences, allowNegativeStock, catalog, auditLog, issued,
                 authVars>>

\* lines 784-826: read the product, compute newStock, refuse negative stock;
\* a refusal thrown inside $transaction rolls the transaction back
MovRead(c) ==
  /\ calls[c].pc = "mov_read"
  /\ LET previousStock == StockView(c, MovLine(c).productId)
         newStock == previousStock + MovQuantityChange(c)
     IN  IF Refused(newStock)
         THEN /\ calls' = [calls EXCEPT ![c] = Finished(@, "insufficient_stock")]
              /\ tx' = [tx EXCEPT ![c] = EmptyTx]
         ELSE /\ calls' = [calls EXCEPT ![c].pc = "mov_write",
                                        ![c].previousStock = previousStock]
              /\ UNCHANGED tx
  /\ UNCHANGED <<stock, movements, sales, returns, sequences,
                 allowNegativeStock, catalog, auditLog, issued,
                 authVars>>

Movement(c) ==
  [productId |-> MovLine(c).productId,
   type |-> MovType(c),
   quantity |-> MovQuantityChange(c),
   previousStock |-> calls[c].previousStock,
   newStock |-> calls[c].previousStock + MovQuantityChange(c),
   referenceId |-> IF InTx(c) THEN calls[c].saleId ELSE 0]

\* where the handler goes after a movement inside its transaction
AfterMovement(c) ==
  IF calls[c].i < MovCount(c)
  THEN [calls[c] EXCEPT !.i = @ + 1,
                        !.pc = IF calls[c].op = "return" THEN "item_update"
                               ELSE "mov_read"]
  ELSE [calls[c] EXCEPT !.pc = IF calls[c].op = "return" THEN "return_finish"
                               ELSE "commit"]

\* variant: createMovement is called without the transaction client, its two
\* statements commit on their own
MovWriteNoTx(c) ==
  /\ calls[c].pc = "mov_write" /\ InTx(c)
  /\ ~ProductLockedByOther(c, MovLine(c).productId)
  /\ movements' = Append(movements, Movement(c))
  /\ stock' = [stock EXCEPT ![MovLine(c).productId] = Movement(c).newStock]
  /\ calls' = [calls EXCEPT ![c] = AfterMovement(c)]
  /\ UNCHANGED <<sales, returns, sequences, allowNegativeStock, catalog, auditLog, tx, issued,
                 authVars>>

\* lines 828-850 inside a transaction: insert the movement and set
\* product.currentStock = newStock; the UPDATE waits for the row's lock
MovWriteTx(c) ==
  /\ calls[c].pc = "mov_write" /\ InTx(c)
  /\ ~ProductLockedByOther(c, MovLine(c).productId)
  /\ tx' = [tx EXCEPT ![c].movs = Append(@, Movement(c)),
                      ![c].wrote = @ \cup {MovLine(c).productId},
                      ![c].stock[MovLine(c).productId] = Movement(c).newStock]
  /\ calls' = [calls EXCEPT ![c] = AfterMovement(c)]
  /\ UNCHANGED <<stock, movements, sales, returns, sequences,
                 allowNegativeStock, catalog, auditLog, issued,
                 authVars>>

\* lines 828-842 without a transaction (addEntry, adjustStock): the movement
\* row is inserted and visible at once
MovInsert(c) ==
  /\ calls[c].pc = "mov_write" /\ ~InTx(c)
  /\ movements' = Append(movements, Movement(c))
  /\ calls' = [calls EXCEPT ![c].pc = "stock_write"]
  /\ UNCHANGED <<stock, sales, returns, sequences, allowNegativeStock, catalog, auditLog, tx,
                 issued,
                 authVars>>

\* auditService.log: the AuditLog row of the operation of handler c
AuditEvent(c) ==
  [action |-> CASE calls[c].op = "sale" -> "SALE_CREATE"
                [] calls[c].op = "void" -> "SALE_VOID"
                [] calls[c].op = "return" -> "SALE_RETURN"
                [] calls[c].op = "entry" -> "INVENTORY_ENTRY"
                [] OTHER -> "INVENTORY_ADJUSTMENT",
   entity |-> IF InTx(c) THEN "sale" ELSE "product",
   entityId |-> IF InTx(c) THEN calls[c].saleId ELSE MovLine(c).productId,
   by |-> c]

\* lines 844-850 without a transaction: product.currentStock = newStock, a
\* second statement that waits for the row's lock
StockUpdated(c) ==
  /\ calls[c].pc = "stock_write"
  /\ ~ProductLockedByOther(c, MovLine(c).productId)
  /\ stock' = [stock EXCEPT ![MovLine(c).productId] = Movement(c).newStock]
  /\ calls' = [calls EXCEPT ![c] = Finished(@, "ok")]
  /\ UNCHANGED <<movements, sales, returns, sequences, allowNegativeStock,
                 catalog, tx, issued,
                 authVars>>

\* ... then the handler writes its audit row and returns (nothing reads the
\* audit log in between)
StockWrite(c) == StockUpdated(c) /\ auditLog' = auditLog \cup {AuditEvent(c)}

\* ... or auditLog.create is rejected: auditService.log catches the error and
\* the handler returns as if the row had been written
StockWriteUnlogged(c) == StockUpdated(c) /\ UNCHANGED auditLog

\* lines 844-850 without a transaction: the UPDATE is rejected (the product
\* row is gone or the connection is lost); nothing catches it, the handler ends
\* with the error and the movement row inserted before stays
StockWriteFails(c) ==
  /\ calls[c].pc = "stock_write"
  /\ calls' = [calls EXCEPT ![c] = Finished(@, "update_failed")]
  /\ UNCHANGED <<stock, movements, sales, returns, sequences,
                 allowNegativeStock, catalog, auditLog, tx, issued,
                 authVars>>

\* ----------------------------------------------------------------- voidSale
\* lines 199-220: the checks, on a Sale row read outside the transaction
VoidSaleStart(c, saleId, reason) ==
  /\ CanStart(c)
  /\ LET call == [IdleCall EXCEPT !.op = "void", !.saleId = saleId,
                                  !.reason = reason]
     IN  calls' = [calls EXCEPT ![c] =
           IF reason = "" THEN Finished(call, "reason_required")
           ELSE IF sales[saleId].status = "NONE"
           THEN Finished(call, "sale_not_found")
           ELSE IF sales[saleId].status = "VOIDED"
           THEN Finished(call, "already_voided")
           ELSE [call EXCEPT !.pc = "void_update"]]
  /\ UNCHANGED <<stock, movements, sales, returns, sequences,
                 allowNegativeStock, catalog, auditLog, tx, issued,
                 authVars>>

\* lines 222-232: the first statement of the transaction marks the sale VOIDED
\* (sale.items of line 211 is read here: productId and quantity never change)
VoidUpdate(c) ==
  /\ calls[c].pc = "void_update"
  /\ ~SaleLockedByOther(c, calls[c].saleId)
  /\ tx' = [tx EXCEPT ![c].saleUpd =
              <<[status |-> "VOIDED", void |-> TRUE,
                 voidReason |-> calls[c].reason, voidedBy |-> c]>>]
  /\ calls' = [calls EXCEPT ![c].pc = "mov_read", ![c].i = 1]
  /\ UNCHANGED <<stock, movements, sales, returns, sequences,
                 allowNegativeStock, catalog, auditLog, issued,
                 authVars>>

\* -------------------------------------------------------------- createReturn
\* sale.items.find(si => si.productId === productId): index of the item, 0 if none
RECURSIVE FindItem(_, _, _)
FindItem(items, productId, k) ==
  IF k > Len(items) THEN 0
  ELSE IF items[k].productId = productId THEN k
  ELSE FindItem(items, productId, k + 1)

\* variant: the quantity of a line is not compared with what is left to return
RECURSIVE ReturnLineErrorUnbounded(_, _, _)
ReturnLineErrorUnbounded(saleItems, items, k) ==
  IF k > Len(items) THEN ""
  ELSE IF FindItem(saleItems, items[k].productId, 1) = 0
       THEN "item_not_in_sale"
  ELSE ReturnLineErrorUnbounded(saleItems, items, k + 1)

\* lines 292-311: the error of the first return line that fails, "" if none
RECURSIVE ReturnLineError(_, _, _)
ReturnLineError(saleItems, items, k) ==
  IF k > Len(items) THEN ""
  ELSE LET si == FindItem(saleItems, items[k].productId, 1)
       IN  IF si = 0 THEN "item_not_in_sale"
           ELSE IF items[k].quantity >
                     saleItems[si].quantity - saleItems[si].returnedQty
           THEN "excessive_quantity"
           ELSE ReturnLineError(saleItems, items, k + 1)

\* variant: the return number is drawn before the lines are validated
CreateReturnStartNumberFirst(c, saleId, items, reason) ==
  /\ CanStart(c)
  /\ LET call == [IdleCall EXCEPT !.op = "return", !.saleId = saleId,
                                  !.items = items, !.reason = reason]
         sale == sales[saleId]
         err == ReturnLineError(sale.items, items, 1)
     IN  /\ calls' = [calls EXCEPT ![c] =
               IF reason = "" THEN Finished(call, "reason_required")
               ELSE IF sale.status = "NONE" THEN Finished(call, "sale_not_found")
               ELSE IF sale.status = "VOIDED" THEN Finished(call, "sale_voided")
               ELSE IF err # "" THEN Finished(call, err)
               ELSE [call EXCEPT !.pc = "seq_find",
                       !.stale = [k \in 1..Len(sale.items) |->
                                    sale.items[k].returnedQty]]]
         /\ sequences' =
               IF reason # "" /\ sale.status \notin {"NONE", "VOIDED"} /\ err # ""
               THEN [sequences EXCEPT ![RETURN] = IF @ = NoRow THEN 1 ELSE @ + 1]
               ELSE sequences
  /\ UNCHANGED <<stock, movements, sales, returns, allowNegativeStock, catalog, auditLog, tx,
                 issued,
                 authVars>>

\* lines 268-311: the checks, on a Sale row read outside the transaction; the
\* returnedQty of its items is kept as read
CreateReturnStart(c, saleId, items, reason) ==
  /\ CanStart(c)
  /\ LET call == [IdleCall EXCEPT !.op = "return", !.saleId = saleId,
                                  !.items = items, !.reason = reason]
         sale == sales[saleId]
         err == ReturnLineError(sale.items, items, 1)
     IN  calls' = [calls EXCEPT ![c] =
           IF reason = "" THEN Finished(call, "reason_required")
           ELSE IF sale.status = "NONE" THEN Finished(call, "sale_not_found")
           ELSE IF sale.status = "VOIDED" THEN Finished(call, "sale_voided")
           ELSE IF err # "" THEN Finished(call, err)
           ELSE [call EXCEPT !.pc = "seq_find",
                   !.stale = [k \in 1..Len(sale.items) |->
                                sale.items[k].returnedQty]]]
  /\ UNCHANGED <<stock, movements, sales, returns, sequences,
                 allowNegativeStock, catalog, auditLog, tx, issued,
                 authVars>>

\* line 314: the return number, committed by getNextValue's own transaction
ReturnNextNumber(c) ==
  /\ calls[c].pc = "seq_write" /\ calls[c].op = "return"
  /\ LET returnNumber == UpsertValue(RETURN, calls[c].found)
     IN  IF returnNumber = NoRow
         THEN /\ calls' = [calls EXCEPT ![c] = Finished(@, "sequence_conflict")]
              /\ UNCHANGED <<sequences, issued>>
         ELSE /\ sequences' = [sequences EXCEPT ![RETURN] = returnNumber]
              /\ issued' = [issued EXCEPT ![RETURN] = Append(@, returnNumber)]
              /\ calls' = [calls EXCEPT ![c].pc = "item_update",
                                        ![c].num = returnNumber, ![c].i = 1]
  /\ UNCHANGED <<stock, movements, sales, returns, allowNegativeStock, catalog, auditLog, tx,
                 authVars>>

\* lines 319-339: saleItem.returnedQty = (returnedQty as read before the
\* transaction) + the line's quantity; the UPDATE waits for the row's lock
ItemUpdate(c) ==
  /\ calls[c].pc = "item_update"
  /\ LET line == calls[c].items[calls[c].i]
         k == FindItem(sales[calls[c].saleId].items, line.productId, 1)
     IN  /\ ~ItemLockedByOther(c, calls[c].saleId, k)
         /\ tx' = [tx EXCEPT ![c].itemUpd =
                     {u \in @ : u[1] # k}
                       \cup {<<k, calls[c].stale[k] + line.quantity>>}]
  /\ calls' = [calls EXCEPT ![c].pc = "mov_read"]
  /\ UNCHANGED <<stock, movements, sales, returns, sequences,
                 allowNegativeStock, catalog, auditLog, issued,
                 authVars>>

\* variant: the refund is computed at the product's current salePrice
ReturnItemCurrentPrice(saleItems, line) ==
  LET unitPrice == catalog[line.productId].salePrice
      refundAmount == DTimes(unitPrice, Dec(line.quantity, 0))
  IN  [productId |-> line.productId, quantity |-> line.quantity,
       unitPrice |-> DToDecimalPlaces(unitPrice, 2),
       refund |-> refundAmount,
       refundAmount |-> DToDecimalPlaces(refundAmount, 2)]

\* lines 324-333: a ReturnItem, refunded at the SaleItem's unit price
ReturnItem(saleItems, line) ==
  LET unitPrice == saleItems[FindItem(saleItems, line.productId, 1)].unitPrice
      refundAmount == DTimes(unitPrice, Dec(line.quantity, 0))
  IN  [productId |-> line.productId, quantity |-> line.quantity,
       unitPrice |-> DToDecimalPlaces(unitPrice, 2),
       refund |-> refundAmount,
       refundAmount |-> DToDecimalPlaces(refundAmount, 2)]

\* lines 377-383: every item returned, from the returnedQty read before the
\* transaction and the first return line of the item's product
AllItemsReturned(saleItems, stale, items) ==
  \A k \in 1..Len(saleItems) :
    LET ri == FindItem(items, saleItems[k].productId, 1)
        newReturnedQty == stale[k] + (IF ri = 0 THEN 0 ELSE items[ri].quantity)
    IN  newReturnedQty >= saleItems[k].quantity

\* lines 356-395: create the Return and its ReturnItems, then set the sale's
\* status; the UPDATE of the Sale row waits for the row's lock
ReturnFinish(c) ==
  /\ calls[c].pc = "return_finish"
  /\ ~SaleLockedByOther(c, calls[c].saleId)
  /\ LET saleItems == sales[calls[c].saleId].items
         items == calls[c].items
         returnItems == [k \in 1..Len(items) |-> ReturnItem(saleItems, items[k])]
         totalRefund == DSum([k \in 1..Len(items) |-> returnItems[k].refund])
         newReturn ==
           [returnNumber |-> calls[c].num, saleId |-> calls[c].saleId,
            totalRefund |-> DToDecimalPlaces(totalRefund, 2),
            items |-> [k \in 1..Len(items) |->
                         [productId |-> returnItems[k].productId,
                          quantity |-> returnItems[k].quantity,
                          unitPrice |-> returnItems[k].unitPrice,
                          refundAmount |-> returnItems[k].refundAmount]]]
         status == IF AllItemsReturned(saleItems, calls[c].stale, items)
                   THEN "VOIDED" ELSE "PARTIAL_RETURN"
     IN  tx' = [tx EXCEPT ![c].newReturn = <<newReturn>>,
                          ![c].saleUpd = <<[status |-> status, void |-> FALSE,
                                            voidReason |-> "", voidedBy |-> 0]>>]
  /\ calls' = [calls EXCEPT ![c].pc = "commit"]
  /\ UNCHANGED <<stock, movements, sales, returns, sequences,
                 allowNegativeStock, catalog, auditLog, issued,
                 authVars>>

\* ------------------------------------------------------ addEntry, adjustStock
\* lines 896-906
AddEntryStart(c, productId, quantity) ==
  /\ CanStart(c)
  /\ LET call == [IdleCall EXCEPT !.op = "entry",
                    !.items = <<[productId |-> productId, quantity |-> quantity]>>]
     IN  calls' = [calls EXCEPT ![c] =
           IF quantity <= 0 THEN Finished(call, "invalid_quantity")
           ELSE [call EXCEPT !.pc = "mov_read", !.i = 1]]
  /\ UNCHANGED <<stock, movements, sales, returns, sequences,
                 allowNegativeStock, catalog, auditLog, tx, issued,
                 authVars>>

\* lines 853-872: quantityChange = newStockValue - currentStock as read here
AdjustStockStart(c, productId, newStockValue, reason) ==
  /\ CanStart(c)
  /\ LET call == [IdleCall EXCEPT !.op = "adjust", !.reason = reason,
                    !.items = <<[productId |-> productId,
                                 quantity |-> newStockValue]>>,
                    !.quantityChange = newStockValue - stock[productId]]
     IN  calls' = [calls EXCEPT ![c] =
           IF reason = "" THEN Finished(call, "reason_required")
           ELSE [call EXCEPT !.pc = "mov_read", !.i = 1]]
  /\ UNCHANGED <<stock, movements, sales, returns, sequences,
                 allowNegativeStock, catalog, auditLog, tx, issued,
                 authVars>>

\* --------------------------------------------------- productController.update
\* what a PUT /products/:id may send for product p: a new salePrice, a new
\* taxRate, or a new name and sku; a field the request leaves out keeps the
\* value the row has
ProductBodies(p) ==
  {[catalog[p] EXCEPT !.salePrice = Dec(120, 0)],
   [catalog[p] EXCEPT !.taxRate = Dec(5, 2)],
   [catalog[p] EXCEPT !.name = "n3", !.sku = "s3"]}

\* lines 262-356: the fields of the request are written to the row; the
\* UPDATE waits while a transaction holds the row for its currentStock
ProductUpdate(p, data) ==
  /\ \A c \in Calls : p \notin tx[c].wrote
  /\ catalog' = [catalog EXCEPT ![p].name = data.name, ![p].sku = data.sku,
                                ![p].salePrice = data.salePrice,
                                ![p].taxRate = data.taxRate]
  /\ auditLog' = auditLog
       \cup (IF data.salePrice # catalog[p].salePrice
             THEN {[action |-> "PRICE_CHANGE", entity |-> "product",
                    entityId |-> p, by |-> 0]}
             ELSE {})
       \cup {[action |-> "UPDATE", entity |-> "product", entityId |-> p,
              by |-> 0]}
  /\ UNCHANGED <<stock, movements, sales, returns, sequences,
                 allowNegativeStock, calls, tx, issued,
                 authVars>>

\* --------------------------------------------------------------- lock waits
\* the handlers whose uncommitted UPDATE holds the row handler c waits for
Blockers(c) ==
  CASE calls[c].pc \in {"mov_write", "stock_write"} ->
         {d \in Calls \ {c} : MovLine(c).productId \in tx[d].wrote}
    [] calls[c].pc \in {"void_update", "return_finish"} ->
         {d \in Calls \ {c} :
            tx[d].saleUpd # <<>> /\ calls[d].saleId = calls[c].saleId}
    [] calls[c].pc = "item_update" ->
         {d \in Calls \ {c} :
            /\ calls[d].saleId = calls[c].saleId
            /\ \E u \in tx[d].itemUpd :
                 u[1] = FindItem(sales[calls[c].saleId].items,
                                 calls[c].items[calls[c].i].productId, 1)}
    [] OTHER -> {}

RECURSIVE WaitsFor(_, _)
WaitsFor(S, n) ==
  IF n = 0 THEN S
  ELSE WaitsFor(S \cup UNION {Blockers(d) : d \in S}, n - 1)

\* PostgreSQL ends a cycle of lock waits by failing one of its transactions
TxDeadlock(c) ==
  /\ InTx(c) /\ Blockers(c) # {}
  /\ c \in WaitsFor(Blockers(c), MaxCalls)
  /\ tx' = [tx EXCEPT ![c] = EmptyTx]
  /\ calls' = [calls EXCEPT ![c] = Finished(@, "deadlock")]
  /\ UNCHANGED <<stock, movements, sales, returns, sequences,
                 allowNegativeStock, catalog, auditLog, issued,
                 authVars>>

\* ------------------------------------------------------------------ commit
\* the Sale row of id as the transaction of handler c leaves it
SaleAfterTx(c, id) ==
  LET row == IF tx[c].newSale # <<>> /\ id = c THEN tx[c].newSale[1]
             ELSE sales[id]
      upd == tx[c].saleUpd
      mine == calls[c].saleId = id
      row1 == IF mine /\ upd # <<>>
              THEN [row EXCEPT !.status = upd[1].status,
                       !.voidReason = IF upd[1].void THEN upd[1].voidReason ELSE @,
                       !.voidedBy = IF upd[1].void THEN upd[1].voidedBy ELSE @]
              ELSE row
  IN  [row1 EXCEPT !.items =
        [k \in 1..Len(row1.items) |->
           IF mine /\ \E u \in tx[c].itemUpd : u[1] = k
           THEN [row1.items[k] EXCEPT !.returnedQty =
                   (CHOOSE u \in tx[c].itemUpd : u[1] = k)[2]]
           ELSE row1.items[k]]]

\* $transaction returns: every write of the transaction becomes visible at once
CommitTx(c) ==
  /\ calls[c].pc = "commit"
  /\ stock' = [p \in Products |->
                 IF p \in tx[c].wrote THEN tx[c].stock[p] ELSE stock[p]]
  /\ movements' = movements \o tx[c].movs
  /\ sales' = [id \in Calls |-> SaleAfterTx(c, id)]
  /\ returns' = returns \o tx[c].newReturn
  /\ tx' = [tx EXCEPT ![c] = EmptyTx]
  /\ calls' = [calls EXCEPT ![c] = Finished(@, "ok")]
  /\ UNCHANGED <<sequences, allowNegativeStock, catalog, issued,
                 authVars>>

\* ... then the handler writes its audit row and returns
Commit(c) == CommitTx(c) /\ auditLog' = auditLog \cup {AuditEvent(c)}

\* ... or auditLog.create is rejected and auditService.log swallows the error
CommitUnlogged(c) == CommitTx(c) /\ UNCHANGED auditLog

\* ------------------------------------------------------- authService.login
Logins == 1..MaxLogins
maxAttempts == 2     \* storeConfig.maxLoginAttempts
lockoutMinutes == 2  \* storeConfig.lockoutMinutes
NotLocked == 0       \* lockedUntil is null

IdleLogin == [pc |-> "idle", valid |-> FALSE, failedAttempts |-> 0, status |-> 0]

AuthInit ==
  /\ user = [failedAttempts |-> 0, lockedUntil |-> NotLocked, isActive |-> TRUE,
             refreshTokens |-> 0]
  /\ logins = [l \in Logins |-> IdleLogin]
  /\ now = 1
  /\ failedLogins = 0

\* the audit row of login request l
LoginEvent(l, action) ==
  [action |-> action, entity |-> "user", entityId |-> "u", by |-> MaxCalls + l]

\* lines 17-48: find the user, read the store configuration, check the lock
\* against the clock; valid is what bcrypt.compare will answer
LoginStart(l, valid) ==
  /\ logins[l].pc = "idle"
  /\ \A m \in Logins : m < l => logins[m].pc # "idle"
  /\ logins' = [logins EXCEPT ![l] =
       IF user.lockedUntil # NotLocked /\ user.lockedUntil > now
       THEN [IdleLogin EXCEPT !.pc = "done", !.valid = valid, !.status = 423]
       ELSE [IdleLogin EXCEPT !.pc = "compare", !.valid = valid,
                              !.failedAttempts = user.failedAttempts]]
  /\ UNCHANGED <<ledgerVars, auditLog, user, now, failedLogins>>

\* lines 50-87: the password is wrong; failedAttempts becomes the value read
\* at line 18 plus one, the account is locked from maxAttempts on
LoginFailed(l) ==
  /\ logins[l].pc = "compare" /\ ~logins[l].valid
  /\ LET newAttempts == logins[l].failedAttempts + 1
     IN  /\ user' = [user EXCEPT !.failedAttempts = newAttempts,
                                 !.lockedUntil =
                                   IF newAttempts >= maxAttempts
                                   THEN now + lockoutMinutes ELSE @]
         /\ logins' = [logins EXCEPT ![l].pc = "done",
                         ![l].status = IF newAttempts >= maxAttempts
                                       THEN 423 ELSE 401]
  /\ auditLog' = auditLog \cup {LoginEvent(l, "LOGIN_FAILED")}
  /\ failedLogins' = failedLogins + 1
  /\ UNCHANGED <<ledgerVars, now>>

\* lines 89-136: the password is right; the counters are reset, a refresh
\* token is created
LoginSucceeded(l) ==
  /\ logins[l].pc = "compare" /\ logins[l].valid
  /\ IF ~user.isActive
     THEN /\ logins' = [logins EXCEPT ![l].pc = "done", ![l].status = 403]
          /\ UNCHANGED <<user, auditLog, failedLogins>>
     ELSE /\ user' = [user EXCEPT !.failedAttempts = 0,
                                  !.lockedUntil = NotLocked,
                                  !.refreshTokens = @ + 1]
          /\ logins' = [logins EXCEPT ![l].pc = "done", ![l].status = 200]
          /\ auditLog' = auditLog \cup {LoginEvent(l, "LOGIN")}
          /\ failedLogins' = 0
  /\ UNCHANGED <<ledgerVars, now>>

\* userController.resetPassword: an administrator sets a new password, which
\* clears the counters and deletes the refresh tokens, and is audited
ResetPassword ==
  /\ user' = [user EXCEPT !.failedAttempts = 0, !.lockedUntil = NotLocked,
                          !.refreshTokens = 0]
  /\ auditLog' = auditLog
       \cup {[action |-> "PASSWORD_RESET", entity |-> "user", entityId |-> "u",
              by |-> 0]}
  /\ failedLogins' = 0
  /\ UNCHANGED <<ledgerVars, logins, now>>

\* a minute passes
Tick ==
  /\ now < MaxNow
  /\ now' = now + 1
  /\ UNCHANGED <<ledgerVars, auditLog, user, logins, failedLogins>>

\* ------------------------------------------------------------ specification
Init ==
  /\ stock = [p \in Products |-> InitialStock]
  /\ movements = <<>>
  /\ sales = [id \in Calls |-> NoSale]
  /\ returns = <<>>
  /\ sequences = [s \in SeqNames |-> NoRow]
  /\ allowNegativeStock = FALSE
  /\ catalog = [p \in Products |-> ProductRow(p)]
  /\ auditLog = {}
  /\ calls = [c \in Calls |-> IdleCall]
  /\ tx = [c \in Calls |-> EmptyTx]
  /\ issued = [s \in SeqNames |-> <<>>]
  /\ AuthInit

\* the requests: a sale lists its lines with "p1" first (the order of the
\* lines decides nothing but the order in which product rows are locked)
SaleRequests ==
  {q \in SeqsUpTo(SaleLines, MaxLines) : Len(q) = 1 \/ q[1].productId = "p1"}
ReturnRequests == SeqsUpTo(ReturnLines, MaxLines)

\* the steps of a handler that is under way
Step(c) ==
  \/ SeqFind(c)
  \/ SaleNextReceipt(c)
  \/ ReturnNextNumber(c)
  \/ VoidUpdate(c)
  \/ ItemUpdate(c)
  \/ ReturnFinish(c)
  \/ MovRead(c)
  \/ MovWriteTx(c)
  \/ MovInsert(c)
  \/ StockWrite(c)
  \/ TxDeadlock(c)
  \/ Commit(c)

\* createSale handlers alone
NextSale ==
  \E c \in 1..MaxStarted :
    \/ \E items \in SaleRequests, paid \in AmountsPaid,
          gdp \in GlobalDiscountPercents :
         CreateSaleStart(c, items, paid, gdp)
    \/ SeqFind(c)
    \/ SaleNextReceipt(c)
    \/ MovRead(c)
    \/ MovWriteTx(c)
    \/ Commit(c)

SpecSale == Init /\ [][NextSale]_vars

\* the store after one createSale of OpeningSale has committed
OpeningSale ==
  <<[productId |-> "p1", quantity |-> 2, discountPercent |-> DZero],
    [productId |-> "p2", quantity |-> 1, discountPercent |-> DZero]>>
SeedCatalog == [p \in Products |-> ProductRow(p)]
OpeningSaleRow ==
  SaleRow(1, SaleTotals(SeedCatalog, OpeningSale, DZero, Dec(2000, 0)))
OpeningMovement(k) ==
  [productId |-> OpeningSale[k].productId, type |-> "SALE",
   quantity |-> -OpeningSale[k].quantity,
   previousStock |-> InitialStock,
   newStock |-> InitialStock - OpeningSale[k].quantity,
   referenceId |-> 1]
InitAfterSale ==
  /\ stock = [p \in Products |->
                InitialStock - OpeningSale[FindItem(OpeningSale, p, 1)].quantity]
  /\ movements = <<OpeningMovement(1), OpeningMovement(2)>>
  /\ sales = [id \in Calls |-> IF id = 1 THEN OpeningSaleRow ELSE NoSale]
  /\ returns = <<>>
  /\ sequences = [s \in SeqNames |-> IF s = RECEIPT THEN 1 ELSE NoRow]
  /\ allowNegativeStock = FALSE
  /\ catalog = [p \in Products |-> ProductRow(p)]
  /\ auditLog = {[action |-> "SALE_CREATE", entity |-> "sale", entityId |-> 1,
                  by |-> 1]}
  /\ calls = [c \in Calls |->
                IF c = 1
                THEN [IdleCall EXCEPT !.pc = "done", !.op = "sale", !.saleId = 1,
                                      !.num = 1, !.i = Len(OpeningSale),
                                      !.result = "ok"]
                ELSE IdleCall]
  /\ tx = [c \in Calls |-> EmptyTx]
  /\ issued = [s \in SeqNames |-> IF s = RECEIPT THEN <<1>> ELSE <<>>]
  /\ AuthInit

\* createReturn handlers alone, on the opening sale
NextReturn ==
  \E c \in 2..(MaxReturns + 1) :
    \/ \E saleId \in Calls, items \in ReturnRequests, reason \in Reasons :
         CreateReturnStart(c, saleId, items, reason)
    \/ SeqFind(c)
    \/ ReturnNextNumber(c)
    \/ ItemUpdate(c)
    \/ ReturnFinish(c)
    \/ MovRead(c)
    \/ MovWriteTx(c)
    \/ TxDeadlock(c)
    \/ Commit(c)

SpecReturn == InitAfterSale /\ [][NextReturn]_vars

\* createReturn handlers on the opening sale, one at a time, while products
\* are edited
NextRefund ==
  \/ \E c \in 2..(MaxReturns + 1) :
       \/ \E saleId \in Calls, items \in ReturnRequests, reason \in Reasons :
            /\ \A d \in Calls : ~Running(d)
            /\ CreateReturnStart(c, saleId, items, reason)
       \/ SeqFind(c)
       \/ ReturnNextNumber(c)
       \/ ItemUpdate(c)
       \/ ReturnFinish(c)
       \/ MovRead(c)
       \/ MovWriteTx(c)
       \/ Commit(c)
  \/ \E p \in Products : \E data \in ProductBodies(p) : ProductUpdate(p, data)

SpecRefund == InitAfterSale /\ [][NextRefund]_vars

\* voidSale and one-line createReturn handlers on the opening sale
NextComp ==
  \E c \in Calls :
    \/ \E saleId \in Calls, reason \in Reasons : VoidSaleStart(c, saleId, reason)
    \/ \E saleId \in Calls, items \in SeqsUpTo(ReturnLines, 1),
          reason \in Reasons :
         CreateReturnStart(c, saleId, items, reason)
    \/ SeqFind(c)
    \/ ReturnNextNumber(c)
    \/ VoidUpdate(c)
    \/ ItemUpdate(c)
    \/ ReturnFinish(c)
    \/ MovRead(c)
    \/ MovWriteTx(c)
    \/ TxDeadlock(c)
    \/ Commit(c)

SpecComp == InitAfterSale /\ [][NextComp]_vars

\* every operation, on one-line requests
Next ==
  \E c \in 1..MaxStarted :
    \/ \E items \in SeqsUpTo(SaleLines, 1), paid \in AmountsPaid,
          gdp \in GlobalDiscountPercents :
         CreateSaleStart(c, items, paid, gdp)
    \/ \E saleId \in Calls, reason \in Reasons : VoidSaleStart(c, saleId, reason)
    \/ \E saleId \in Calls, items \in SeqsUpTo(ReturnLines, 1),
          reason \in Reasons :
         CreateReturnStart(c, saleId, items, reason)
    \/ \E p \in Products, q \in 1..MaxQty : AddEntryStart(c, p, q)
    \/ \E p \in Products, n \in 0..InitialStock, reason \in Reasons :
         AdjustStockStart(c, p, n, reason)
    \/ Step(c)

Spec == Init /\ [][Next]_vars

\* every operation on one-line requests, the write of the audit row may fail
\* (two handlers never wait for each other in a cycle)
NextAudit ==
  \E c \in 1..MaxAudited :
    \/ \E items \in SeqsUpTo(SaleLines, 1), paid \in AmountsPaid,
          gdp \in GlobalDiscountPercents :
         CreateSaleStart(c, items, paid, gdp)
    \/ \E saleId \in Calls, reason \in Reasons : VoidSaleStart(c, saleId, reason)
    \/ \E saleId \in Calls, items \in SeqsUpTo(ReturnLines, 1),
          reason \in Reasons :
         CreateReturnStart(c, saleId, items, reason)
    \/ \E p \in Products, q \in 1..MaxQty : AddEntryStart(c, p, q)
    \/ \E p \in Products, n \in 0..InitialStock, reason \in Reasons :
         AdjustStockStart(c, p, n, reason)
    \/ SeqFind(c)
    \/ SaleNextReceipt(c)
    \/ ReturnNextNumber(c)
    \/ VoidUpdate(c)
    \/ ItemUpdate(c)
    \/ ReturnFinish(c)
    \/ MovRead(c)
    \/ MovWriteTx(c)
    \/ MovInsert(c)
    \/ StockWrite(c)
    \/ StockWriteUnlogged(c)
    \/ Commit(c)
    \/ CommitUnlogged(c)

SpecAudit == Init /\ [][NextAudit]_vars

\* login requests, password resets and the clock
NextLogin ==
  \/ \E l \in Logins, valid \in BOOLEAN : LoginStart(l, valid)
  \/ \E l \in Logins : LoginFailed(l)
  \/ \E l \in Logins : LoginSucceeded(l)
  \/ ResetPassword
  \/ Tick

SpecLogin == Init /\ [][NextLogin]_vars

\* addEntry and adjustStock handlers alone, the UPDATE of createMovement may
\* fail
NextManual ==
  \E c \in 1..MaxStarted :
    \/ \E p \in Products, q \in 1..MaxQty : AddEntryStart(c, p, q)
    \/ \E p \in Products, n \in 0..InitialStock, reason \in Reasons :
         AdjustStockStart(c, p, n, reason)
    \/ MovRead(c)
    \/ MovInsert(c)
    \/ StockWrite(c)
    \/ StockWriteFails(c)

SpecManual == Init /\ [][NextManual]_vars

\* one createSale at a time, with fractional discount percentages and amounts
\* paid (the validators take any float from 0 to 100 and any amount)
PricedDiscounts(p) ==
  IF p = "p1" THEN {DZero, Dec(10, 0), Dec(5, 1), Dec(5, 3)}
  ELSE {DZero, Dec(10, 0), Dec(5, 1)}
PricedLines ==
  UNION {[productId : {p}, quantity : 1..MaxQty,
          discountPercent : PricedDiscounts(p)] : p \in Products \cup {"p0"}}
PricedRequests ==
  {q \in SeqsUpTo(PricedLines, MaxLines) : Len(q) = 1 \/ q[1].productId = "p1"}
PricedGlobalDiscounts == {DZero, Dec(10, 0), Dec(1, 0)}
PricedAmountsPaid == {Dec(100, 0), Dec(1071, 1), Dec(110, 0), Dec(1000, 0)}

NextPricing ==
  \/ \E items \in PricedRequests, paid \in PricedAmountsPaid,
        gdp \in PricedGlobalDiscounts :
       CreateSaleStart(1, items, paid, gdp)
  \/ SeqFind(1)
  \/ SaleNextReceipt(1)
  \/ MovRead(1)
  \/ MovWriteTx(1)
  \/ Commit(1)

SpecPricing == Init /\ [][NextPricing]_vars

\* ======================================================================
\* Properties
\* ======================================================================
Quiescent == \A c \in Calls : ~Running(c)

RECURSIVE SumDeltas(_, _)
SumDeltas(ms, p) ==
  IF ms = <<>> THEN 0
  ELSE (IF ms[1].productId = p THEN ms[1].quantity ELSE 0)
         + SumDeltas(Tail(ms), p)

\* C1 (conservation): whenever no handler is under way, each product's
\* currentStock is its initial stock plus the sum of the deltas of the
\* movements recorded for it.
C1_Conservation ==
  Quiescent =>
    \A p \in Products : stock[p] = InitialStock + SumDeltas(movements, p)

\* the sales of exactly one unit of product p that have committed
OneUnitSales(p) ==
  {id \in Calls :
     /\ sales[id].status # "NONE"
     /\ Len(sales[id].items) = 1
     /\ sales[id].items[1].productId = p
     /\ sales[id].items[1].quantity = 1}

\* C2 (no lost updates): with negative stock disallowed, when the handlers
\* have all returned and the only movements of a product are those of sales of
\* one unit of it, no more of those sales have committed than there was stock,
\* and currentStock is the initial stock less one unit per committed sale (N
\* calls against stock N leave 0; of N + 1 calls only N commit).
C2_NoLostUpdates ==
  \A p \in Products :
    ( /\ ~allowNegativeStock
      /\ Quiescent
      /\ \A k \in 1..Len(movements) :
           movements[k].productId = p =>
             movements[k].type = "SALE"
               /\ movements[k].referenceId \in OneUnitSales(p) )
    => /\ Cardinality(OneUnitSales(p)) <= InitialStock
       /\ stock[p] = InitialStock - Cardinality(OneUnitSales(p))

RECURSIVE SeqMax(_)
SeqMax(q) ==
  IF q = <<>> THEN 0
  ELSE IF q[1] >= SeqMax(Tail(q)) THEN q[1] ELSE SeqMax(Tail(q))

\* C3 (sequence uniqueness): no two getNextValue calls on one sequence returned
\* the same value, so no two sales carry the same receiptNumber and no two
\* returns the same returnNumber, concurrent first calls included.
C3_UniqueNumbers ==
  /\ \A s \in SeqNames : \A m, n \in 1..Len(issued[s]) :
       m # n => issued[s][m] # issued[s][n]
  /\ \A a, b \in Calls :
       (a # b /\ sales[a].status # "NONE" /\ sales[b].status # "NONE")
         => sales[a].receiptNumber # sales[b].receiptNumber
  /\ \A m, n \in 1..Len(returns) :
       m # n => returns[m].returnNumber # returns[n].returnNumber

\* two sales have committed after two handlers raced to create the counter row
C3_Witness ==
  /\ \E c \in Calls : calls[c].result = "sequence_conflict"
  /\ \E a, b \in Calls :
       a # b /\ sales[a].status # "NONE" /\ sales[b].status # "NONE"

\* the first value of a sequence is 1 and getCurrentValue is the largest
\* value handed out, 0 when there is none
C4_CurrentValue ==
  \A s \in SeqNames :
    /\ issued[s] # <<>> => issued[s][1] = 1
    /\ getCurrentValue(s) = SeqMax(issued[s])

\* the receipt number a createSale draws exceeds that of every createSale
\* that has completed
C4_DrawnAfterCompleted ==
  \A c \in Calls :
    (calls[c].num = 0 /\ calls'[c].num # 0 /\ calls'[c].op = "sale")
      => \A d \in Calls :
           (calls[d].pc = "done" /\ calls[d].op = "sale" /\ calls[d].num # 0)
             => calls[d].num < calls'[c].num

\* C4 (sequence monotonicity): the first getNextValue of a sequence returns 1,
\* a createSale that starts after another completed gets the larger
\* receiptNumber, and getCurrentValue is always the largest value handed out
\* (0 if none).
C4_Monotonic == [] C4_CurrentValue /\ [][C4_DrawnAfterCompleted]_vars

\* a third createSale has completed with receipt number 3
C4_Witness ==
  /\ \E c \in Calls : calls[c].pc = "done" /\ calls[c].result = "ok"
                        /\ calls[c].op = "sale" /\ calls[c].num = 3
  /\ getCurrentValue(RECEIPT) = 3

\* the SALE movements recorded for sale id
SaleMovements(id) ==
  {k \in 1..Len(movements) :
     movements[k].type = "SALE" /\ movements[k].referenceId = id}

\* a sale that exists has its items and, for each item, exactly one SALE
\* movement of minus the item's quantity; a sale that does not exist has none
C5_Atomic ==
  \A id \in Calls :
    IF sales[id].status = "NONE" THEN SaleMovements(id) = {}
    ELSE /\ Len(sales[id].items) >= 1
         /\ Cardinality(SaleMovements(id)) = Len(sales[id].items)
         /\ \A n \in 1..Len(sales[id].items) :
              Cardinality(
                {k \in SaleMovements(id) :
                   /\ movements[k].productId = sales[id].items[n].productId
                   /\ movements[k].quantity = -sales[id].items[n].quantity
                   /\ movements[k].newStock =
                        movements[k].previousStock
                          - sales[id].items[n].quantity}) = 1

\* the step that makes a sale exist records its movements and sets each
\* product's currentStock to the movement's newStock
C5_Debited ==
  \A id \in Calls :
    (sales[id].status = "NONE" /\ sales'[id].status # "NONE")
      => \A k \in 1..Len(movements') :
           (movements'[k].type = "SALE" /\ movements'[k].referenceId = id)
             => /\ k > Len(movements)
                /\ stock'[movements'[k].productId] = movements'[k].newStock

C6_FailedStepChangesNothing ==
  \A c \in Calls :
    ( /\ calls'[c] # calls[c]
      /\ calls'[c].op = "sale"
      /\ calls'[c].result # "ok" )
    => UNCHANGED <<stock, movements, sales, returns>>

C6_NoRowOfFailedSale ==
  \A c \in Calls :
    ( /\ calls[c].pc = "done" /\ calls[c].op = "sale"
      /\ calls[c].result = "insufficient_stock" )
    => /\ sales[c].status = "NONE"
       /\ \A k \in 1..Len(movements) : movements[k].referenceId # c

C6_FullRollback ==
  [] C6_NoRowOfFailedSale /\ [][C6_FailedStepChangesNothing]_vars

\* a createSale was refused at the movement of its second line, inside the
\* transaction, and the stock is as the committed sales left it
C6_Witness ==
  \E c \in Calls :
    /\ calls[c].pc = "done" /\ calls[c].op = "sale"
    /\ calls[c].result = "insufficient_stock"
    /\ calls[c].num # 0 /\ calls[c].i = 2
    /\ sales[c].status = "NONE"

\* a voidSale of a sale that an earlier voidSale has voided fails
C7_SecondVoidFails ==
  \A c \in Calls :
    ( /\ calls[c].pc = "idle" /\ calls'[c].op = "void"
      /\ \E d \in Calls : /\ calls[d].pc = "done" /\ calls[d].op = "void"
                          /\ calls[d].result = "ok"
                          /\ calls[d].saleId = calls'[c].saleId )
    => calls'[c].pc = "done" /\ calls'[c].result # "ok"

\* C7 (idempotent void): once a voidSale of a sale has completed, a second
\* voidSale of it fails at its checks, so that it records no VOID movement and
\* changes neither stock nor the sale.
C7_IdempotentVoid == [][C7_SecondVoidFails]_vars

\* the quantity a return request asks for of product p, over all its lines
RECURSIVE RequestedQty(_, _)
RequestedQty(items, p) ==
  IF items = <<>> THEN 0
  ELSE (IF items[1].productId = p THEN items[1].quantity ELSE 0)
         + RequestedQty(Tail(items), p)

\* a createReturn that passes the checks has no line asking for more than
\* quantity - returnedQty of its item
C8_Checked ==
  \A c \in Calls :
    (calls[c].pc = "idle" /\ calls'[c].op = "return" /\ calls'[c].pc # "done")
      => \A n \in 1..Len(calls'[c].items) :
           \E k \in 1..Len(sales[calls'[c].saleId].items) :
             /\ sales[calls'[c].saleId].items[k].productId
                  = calls'[c].items[n].productId
             /\ calls'[c].items[n].quantity
                  <= sales[calls'[c].saleId].items[k].quantity
                       - sales[calls'[c].saleId].items[k].returnedQty

\* a createReturn that succeeds adds to each item's returnedQty, and to the
\* product's currentStock, the total quantity requested of the product
C8_Restored ==
  \A c \in Calls :
    (calls[c].op = "return" /\ calls[c].pc = "commit" /\ calls'[c].pc = "done")
      => \A k \in 1..Len(sales[calls[c].saleId].items) :
           /\ sales'[calls[c].saleId].items[k].returnedQty
                = sales[calls[c].saleId].items[k].returnedQty
                    + RequestedQty(calls[c].items,
                                   sales[calls[c].saleId].items[k].productId)
           /\ stock'[sales[calls[c].saleId].items[k].productId]
                = stock[sales[calls[c].saleId].items[k].productId]
                    + RequestedQty(calls[c].items,
                                   sales[calls[c].saleId].items[k].productId)

\* C8 (return bounds): a return is rejected when a line asks for more than
\* quantity - returnedQty; one that succeeds increases each returned item's
\* returnedQty by the total quantity requested for the product and restores
\* the product's stock by the same quantity.
C8_ReturnBounds == [][C8_Checked /\ C8_Restored]_vars

\* C9 (status after return): after a createReturn succeeds the sale is VOIDED
\* if every item has returnedQty = quantity and PARTIAL_RETURN otherwise.
C9_Status ==
  \A c \in Calls :
    (calls[c].op = "return" /\ calls[c].pc = "commit" /\ calls'[c].pc = "done")
      => sales'[calls[c].saleId].status =
           IF \A k \in 1..Len(sales'[calls[c].saleId].items) :
                sales'[calls[c].saleId].items[k].returnedQty
                  = sales'[calls[c].saleId].items[k].quantity
           THEN "VOIDED" ELSE "PARTIAL_RETURN"

C9_StatusAfterReturn == [][C9_Status]_vars

\* every item of every sale has 0 <= returnedQty <= quantity
C10_Bounded ==
  \A id \in Calls : \A k \in 1..Len(sales[id].items) :
    /\ 0 <= sales[id].items[k].returnedQty
    /\ sales[id].items[k].returnedQty <= sales[id].items[k].quantity

\* returnedQty changes only when a createReturn of the sale commits
C10_WrittenByReturn ==
  \A id \in Calls :
    ( /\ sales[id].status # "NONE"
      /\ \E k \in 1..Len(sales[id].items) :
           sales'[id].items[k].returnedQty # sales[id].items[k].returnedQty )
    => \E c \in Calls : /\ calls[c].op = "return" /\ calls[c].saleId = id
                        /\ calls[c].pc = "commit" /\ calls'[c].pc = "done"

\* C10 (returned quantity stays in bounds): under any interleaving of
\* createReturn calls on a sale, with voidSale calls among them, every item has
\* 0 <= returnedQty <= quantity, and returnedQty is written by createReturn only.
C10_ReturnedQtyBounds == [] C10_Bounded /\ [][C10_WrittenByReturn]_vars

\* two returns of the sale have committed, one item is returned in full, and
\* a voidSale of the sale has committed as well
C10_Witness ==
  /\ Len(returns) >= 2
  /\ \E k \in 1..Len(sales[1].items) :
       sales[1].items[k].returnedQty = sales[1].items[k].quantity
  /\ \E c \in Calls : calls[c].pc = "done" /\ calls[c].op = "void"
                        /\ calls[c].result = "ok"

\* the value of a sale line after its item discount:
\* unitPrice * quantity - unitPrice * quantity * discountPercent / 100
LineValue(line) ==
  DMinus(DTimes(ProductRow(line.productId).salePrice, Dec(line.quantity, 0)),
         DTimes(DTimes(DTimes(ProductRow(line.productId).salePrice,
                              Dec(line.quantity, 0)),
                       line.discountPercent),
                Dec(1, 2)))

\* the sum of the line values of a request
SumOfLineValues(items) == DSum([k \in 1..Len(items) |-> LineValue(items[k])])

\* handler c commits its sale in this step
SaleCommits(c) ==
  calls[c].op = "sale" /\ calls[c].pc = "commit" /\ calls'[c].pc = "done"

\* without a global discount the persisted subtotal and taxAmount are, to two
\* decimals, the sum of the line values and the sum of the line values times
\* the products' tax rates
C11_LineTotals ==
  \A c \in Calls :
    (SaleCommits(c) /\ calls[c].globalDiscountPercent = DZero)
      => /\ sales'[c].subtotal =
              DToDecimalPlaces(SumOfLineValues(calls[c].items), 2)
         /\ sales'[c].taxAmount =
              DToDecimalPlaces(
                DSum([k \in 1..Len(calls[c].items) |->
                        DTimes(LineValue(calls[c].items[k]),
                               ProductRow(calls[c].items[k].productId).taxRate)]),
                2)

\* ... and the persisted total is the persisted subtotal plus the persisted tax
C11_TotalIsSum ==
  \A c \in Calls :
    (SaleCommits(c) /\ calls[c].globalDiscountPercent = DZero)
      => sales'[c].total = DPlus(sales'[c].subtotal, sales'[c].taxAmount)

\* C11 (tax after item discount): for a createSale without global discount the
\* persisted subtotal is the sum of the post-discount line values, taxAmount
\* the sum of those values times the tax rates, and total = subtotal +
\* taxAmount.
C11_TaxAfterItemDiscount == [][C11_LineTotals /\ C11_TotalIsSum]_vars

\* C12 (global discount redistribution): with globalDiscountPercent g > 0 the
\* persisted subtotal is S * (1 - g/100), discountAmount is S * g/100 and
\* taxAmount is the sum of L_i * (1 - g/100) * taxRate_i, to two decimals, S
\* being the sum of the post-item-discount line values L_i.
C12_Redistributed ==
  \A c \in Calls :
    (SaleCommits(c) /\ DLess(DZero, calls[c].globalDiscountPercent))
      => LET g100 == DTimes(calls[c].globalDiscountPercent, Dec(1, 2))
             keep == DMinus(Dec(1, 0), g100)
             S == SumOfLineValues(calls[c].items)
         IN  /\ sales'[c].subtotal = DToDecimalPlaces(DTimes(S, keep), 2)
             /\ sales'[c].discountAmount = DToDecimalPlaces(DTimes(S, g100), 2)
             /\ sales'[c].taxAmount =
                  DToDecimalPlaces(
                    DSum([k \in 1..Len(calls[c].items) |->
                            DTimes(DTimes(LineValue(calls[c].items[k]), keep),
                                   ProductRow(calls[c].items[k].productId).taxRate)]),
                    2)

C12_GlobalDiscount == [][C12_Redistributed]_vars

\* a createSale is refused for insufficient payment exactly when the amount
\* paid is below the total, and the refusal changes no row and no stock
C13_Refused ==
  \A c \in Calls :
    (calls[c].op = "sale" /\ calls[c].pc = "seq_write" /\ calls'[c].num # 0)
      => /\ (calls'[c].result = "insufficient_payment")
              <=> DLess(calls[c].amountPaid,
                        SaleTotals(calls[c].products, calls[c].items,
                                   calls[c].globalDiscountPercent,
                                   calls[c].amountPaid).total)
         /\ calls'[c].result = "insufficient_payment"
              => UNCHANGED <<stock, movements, sales, returns>>

\* every persisted sale has amountPaid >= total and
\* changeAmount = max(0, amountPaid - total) on its stored values
C13_Change ==
  \A id \in Calls :
    sales[id].status # "NONE"
      => /\ ~DLess(sales[id].amountPaid, sales[id].total)
         /\ sales[id].changeAmount =
              IF DLess(DZero, DMinus(sales[id].amountPaid, sales[id].total))
              THEN DMinus(sales[id].amountPaid, sales[id].total)
              ELSE DZero

\* C13 (payment and change): createSale fails with the insufficient-payment
\* error, persisting nothing, exactly when amountPaid < total; every persisted
\* sale has amountPaid >= total and changeAmount = max(0, amountPaid - total).
C13_PaymentAndChange == [][C13_Refused]_vars /\ [] C13_Change

\* C14 (no sequence change on abort): a createSale that fails leaves the
\* receipt_number counter as it was before the call, so that once the
\* handlers have returned the counter is the number of sales that committed.
C14_NoChangeOnAbort ==
  Quiescent =>
    getCurrentValue(RECEIPT)
      = Cardinality({id \in Calls : sales[id].status # "NONE"})

\* handler c commits its voidSale in this step
VoidCommits(c) ==
  calls[c].op = "void" /\ calls[c].pc = "commit" /\ calls'[c].pc = "done"

\* the commit of a voidSale marks the sale VOIDED with the reason and the
\* user, appends one VOID movement of +quantity per item, and raises each
\* product's currentStock by the item's quantity
C15_Voided ==
  \A c \in Calls :
    VoidCommits(c)
      => LET id == calls[c].saleId
             n == Len(sales[id].items)
         IN  /\ sales'[id].status = "VOIDED"
             /\ sales'[id].voidReason = calls[c].reason
             /\ sales'[id].voidedBy = c
             /\ Len(movements') = Len(movements) + n
             /\ \A k \in 1..n :
                  /\ movements'[Len(movements) + k].type = "VOID"
                  /\ movements'[Len(movements) + k].referenceId = id
                  /\ movements'[Len(movements) + k].productId
                       = sales[id].items[k].productId
                  /\ movements'[Len(movements) + k].quantity
                       = sales[id].items[k].quantity
                  /\ stock'[sales[id].items[k].productId]
                       = stock[sales[id].items[k].productId]
                           + sales[id].items[k].quantity

C16_StockNotNegative ==
  /\ \A p \in Products : stock[p] >= 0
  /\ \A k \in 1..Len(movements) : movements[k].newStock >= 0

\* a step that ends a handler with the insufficient-stock error changes nothing
C16_RefusalChangesNothing ==
  \A c \in Calls :
    (calls'[c] # calls[c] /\ calls'[c].result = "insufficient_stock")
      => UNCHANGED <<stock, movements, sales, returns>>

\* C16 (non-negative stock): while allowNegativeStock is false no interleaving
\* of createSale, voidSale, createReturn, addEntry and adjustStock reaches a
\* negative currentStock or a movement with negative newStock; the movement
\* that would is refused with the insufficient-stock error and changes nothing.
C16_NonNegativeStock ==
  [] (~allowNegativeStock => C16_StockNotNegative)
    /\ [][C16_RefusalChangesNothing]_vars

\* createMovement has refused a movement, of an adjustStock or inside the
\* transaction of a createSale, and a product is out of stock
C16_Witness ==
  /\ ~allowNegativeStock
  /\ \E c \in Calls :
       /\ calls[c].pc = "done" /\ calls[c].result = "insufficient_stock"
       /\ calls[c].op = "adjust" \/ calls[c].num # 0
  /\ \E p \in Products : stock[p] = 0

\* the errors of the checks of voidSale and createReturn
Rejections ==
  {"reason_required", "sale_not_found", "already_voided", "sale_voided",
   "item_not_in_sale", "excessive_quantity"}

\* a voidSale or createReturn that is rejected changes no sale, item, stock,
\* movement, return or sequence counter
C17_Rejected ==
  \A c \in Calls :
    ( /\ calls[c].pc = "idle" /\ calls'[c].pc = "done"
      /\ calls'[c].op \in {"void", "return"}
      /\ calls'[c].result \in Rejections )
    => UNCHANGED <<stock, movements, sales, returns, sequences>>

\* C17 (rejected compensations change nothing): a voidSale or createReturn
\* rejected for an empty reason, an unknown or VOIDED sale, a product that is
\* not in the sale or an excessive quantity leaves the sale, the items'
\* returnedQty, the stocks, the movements, the returns and both sequence
\* counters as they were.
C17_RejectedChangesNothing == [][C17_Rejected]_vars

\* a createReturn was rejected for its quantity and a voidSale because the
\* sale was already VOIDED
C17_Witness ==
  /\ \E c \in Calls : calls[c].op = "return" /\ calls[c].pc = "done"
                        /\ calls[c].result \in {"excessive_quantity",
                                                "item_not_in_sale"}
  /\ \E c \in Calls : calls[c].op = "void" /\ calls[c].pc = "done"
                        /\ calls[c].result \in Rejections

\* C18 (sale total invariant): every persisted Sale satisfies
\* total = subtotal + taxAmount on its stored two-decimal values, for all the
\* prices, quantities, discount percents and tax rates createSale accepts.
C18_TotalInvariant ==
  \A id \in DOMAIN sales :
    sales[id].status # "NONE"
      => sales[id].total = DPlus(sales[id].subtotal, sales[id].taxAmount)

\* the newStock of the last movement of product p, InitialStock without one
RECURSIVE LastNewStock(_, _)
LastNewStock(p, k) ==
  IF k = 0 THEN InitialStock
  ELSE IF movements[k].productId = p THEN movements[k].newStock
  ELSE LastNewStock(p, k - 1)

\* C19 (manual entry and adjustment are atomic and paired with a movement):
\* in every reachable state, a failure between the two writes of
\* createMovement included, an ENTRY or ADJUSTMENT movement exists if and only
\* if the product's currentStock was set to its newStock: each product's
\* currentStock is the newStock of its last movement.
C19_ManualPaired ==
  \A p \in Products : stock[p] = LastNewStock(p, Len(movements))

\* the same once no handler is under way
C19_PairedAtRest ==
  (\A c \in Calls : calls[c].pc \in {"idle", "done"}) => C19_ManualPaired

\* the step in which an adjustStock writes the stock and returns
AdjustWrites(c) ==
  /\ calls[c].op = "adjust" /\ calls[c].pc = "stock_write"
  /\ calls'[c].pc = "done" /\ calls'[c].result = "ok"

C20_TargetWritten ==
  \A c \in Calls :
    AdjustWrites(c)
      => /\ Movement(c).newStock = calls[c].items[1].quantity
         /\ stock'[calls[c].items[1].productId] = calls[c].items[1].quantity

\* C20 (adjust sets the target stock): when adjustStock(productId, newStock,
\* reason) succeeds, the ADJUSTMENT movement it records has newStock equal to
\* the requested newStock and the product's currentStock is the requested
\* newStock right after the call's own write, in every interleaving with other
\* movements of the same product.
C20_AdjustSetsTarget == [][C20_TargetWritten]_vars

\* the SaleItem of the sale of return r for the product of its item it
ReturnedSaleItem(r, it) ==
  sales[r.saleId].items[FindItem(sales[r.saleId].items, it.productId, 1)]

\* every ReturnItem carries the SaleItem's unitPrice and refunds that price
\* times its quantity, and totalRefund is the sum of the items' refundAmount
C21_RefundFromSnapshot ==
  \A j \in 1..Len(returns) :
    /\ \A k \in 1..Len(returns[j].items) :
         LET it == returns[j].items[k]
         IN  /\ it.unitPrice = ReturnedSaleItem(returns[j], it).unitPrice
             /\ it.refundAmount = DTimes(it.unitPrice, Dec(it.quantity, 0))
    /\ returns[j].totalRefund =
         DSum([k \in 1..Len(returns[j].items) |->
                 returns[j].items[k].refundAmount])

\* no step changes a stored SaleItem field other than returnedQty, and the
\* edit of a product changes no sale and no return
C21_SnapshotKept ==
  /\ \A id \in Calls :
       sales[id].status # "NONE"
         => /\ Len(sales'[id].items) = Len(sales[id].items)
            /\ \A k \in 1..Len(sales[id].items) :
                 [sales'[id].items[k] EXCEPT !.returnedQty = 0]
                   = [sales[id].items[k] EXCEPT !.returnedQty = 0]
  /\ catalog' # catalog => UNCHANGED <<sales, returns>>

AuditRowsOf(c) == {ev \in auditLog : ev.by = c}

\* the audit action of each operation
AuditAction(op) ==
  CASE op = "sale" -> "SALE_CREATE"
    [] op = "void" -> "SALE_VOID"
    [] op = "return" -> "SALE_RETURN"
    [] op = "entry" -> "INVENTORY_ENTRY"
    [] op = "adjust" -> "INVENTORY_ADJUSTMENT"
    [] OTHER -> "none"

\* C22 (audit per committed operation): every committed createSale, voidSale,
\* createReturn, addEntry and adjustStock has exactly one audit row, of the
\* action of its operation, written after the commit; a rejected or rolled
\* back operation has none, and none is written before the commit.
C22_AuditPerOperation ==
  \A c \in Calls :
    IF calls[c].pc = "done" /\ calls[c].result = "ok"
    THEN /\ Cardinality(AuditRowsOf(c)) = 1
         /\ \A ev \in AuditRowsOf(c) : ev.action = AuditAction(calls[c].op)
    ELSE AuditRowsOf(c) = {}

\* the lines of a request all name existing products
AllProductsExist(items) == \A k \in 1..Len(items) : items[k].productId \in Products

\* a createSale that has passed its checks or was rejected by them
SaleChecked(c) == calls[c].op = "sale" /\ calls[c].items # <<>>

\* C23 (product lookup failure): createSale fails with the product-not-found
\* error exactly when some line's productId names no existing product; a
\* request whose lines all name existing products is not refused for that,
\* also when two lines name the same product.
C23_ProductLookup ==
  \A c \in Calls :
    SaleChecked(c)
      => ((calls[c].pc = "done" /\ calls[c].result = "product_not_found")
            <=> ~AllProductsExist(calls[c].items))

\* the wrong-password login that makes the failed logins since the last
\* success or reset reach maxAttempts is answered 423
C24_ThresholdLocks ==
  \A l \in Logins :
    (logins[l].pc = "compare" /\ logins'[l].pc = "done" /\ ~logins[l].valid
       /\ failedLogins' >= maxAttempts)
      => logins'[l].status = 423

\* a login that arrives after the threshold and before lockedUntil is answered
\* 423 whatever its password and leaves the User row as it is
C24_LockedOut ==
  \A l \in Logins :
    (logins[l].pc = "idle" /\ logins'[l].pc # "idle"
       /\ failedLogins >= maxAttempts
       /\ user.lockedUntil # NotLocked /\ now < user.lockedUntil)
      => logins'[l].pc = "done" /\ logins'[l].status = 423 /\ user' = user

\* a login with the right password that arrives once lockedUntil has passed
\* succeeds and resets failedAttempts and lockedUntil
C24_UnlockedAfter ==
  \A l \in Logins :
    /\ (logins[l].pc = "idle" /\ logins'[l].pc # "idle" /\ logins'[l].valid
          /\ user.lockedUntil # NotLocked /\ now >= user.lockedUntil)
         => logins'[l].pc = "compare"
    /\ (logins[l].pc = "compare" /\ logins[l].valid /\ logins'[l].pc = "done")
         => /\ logins'[l].status = 200
            /\ user'.failedAttempts = 0 /\ user'.lockedUntil = NotLocked

\* C24 (login lockout): once maxLoginAttempts logins have failed with no
\* successful login or reset in between, the attempt that reaches the
\* threshold and every later attempt before lockedUntil are rejected with 423
\* whatever the password and do not change failedAttempts; once lockedUntil has
\* passed, a login with the correct password succeeds and resets
\* failedAttempts to 0 and lockedUntil to null.
C24_LoginLockout ==
  [][C24_ThresholdLocks /\ C24_LockedOut /\ C24_UnlockedAfter]_vars

\* the movements of product p, in creation order
RECURSIVE MovementsOf(_, _)
MovementsOf(p, k) ==
  IF k = 0 THEN <<>>
  ELSE IF movements[k].productId = p
       THEN Append(MovementsOf(p, k - 1), movements[k])
       ELSE MovementsOf(p, k - 1)

\* C25 (movement chain without gaps): every movement has newStock =
\* previousStock + quantity, and for each product, in creation order, each
\* movement's previousStock is the preceding movement's newStock (the initial
\* stock for the first) and the last movement's newStock is the product's
\* currentStock, under any interleaving.
C25_MovementChain ==
  /\ \A k \in 1..Len(movements) :
       movements[k].newStock = movements[k].previousStock + movements[k].quantity
  /\ \A p \in Products :
       LET ms == MovementsOf(p, Len(movements))
       IN  /\ \A k \in 1..Len(ms) :
                ms[k].previousStock =
                  IF k = 1 THEN InitialStock ELSE ms[k - 1].newStock
           /\ stock[p] = IF ms = <<>> THEN InitialStock ELSE ms[Len(ms)].newStock

\* the exact subtotal and tax of a request: the unrounded line values, less
\* the global discount, and their tax at the products' rates
ExactSubtotal(items, gdp) ==
  DTimes(SumOfLineValues(items), DMinus(Dec(1, 0), DTimes(gdp, Dec(1, 2))))
ExactTax(items, gdp) ==
  DSum([k \in 1..Len(items) |->
          DTimes(DTimes(LineValue(items[k]),
                        DMinus(Dec(1, 0), DTimes(gdp, Dec(1, 2)))),
                 ProductRow(items[k].productId).taxRate)])

C26_RoundedOnce ==
  \A c \in Calls :
    SaleCommits(c)
      => LET items == calls[c].items
             gdp == calls[c].globalDiscountPercent
         IN  /\ sales'[c].subtotal = DToDecimalPlaces(ExactSubtotal(items, gdp), 2)
             /\ sales'[c].taxAmount = DToDecimalPlaces(ExactTax(items, gdp), 2)
             /\ sales'[c].total =
                  DToDecimalPlaces(DPlus(ExactSubtotal(items, gdp),
                                         ExactTax(items, gdp)), 2)

\* C26 (no mid-calculation rounding): the subtotal, taxAmount and total that
\* createSale persists are the two-decimal roundings of the exact values
\* computed from unrounded prices, discounts and tax rates; with a global
\* discount the tax comes from each line's unrounded post-item-discount value.
C26_NoMidRounding == [][C26_RoundedOnce]_vars

\* the VOID and RETURN movements that reference sale id
CompensationsOf(id) ==
  {k \in 1..Len(movements) :
     movements[k].referenceId = id /\ movements[k].type \in {"VOID", "RETURN"}}

\* once a sale is VOIDED its status and its items' returnedQty stay, and no
\* further VOID or RETURN movement references it
C27_StaysVoided ==
  \A id \in Calls :
    sales[id].status = "VOIDED"
      => /\ sales'[id].status = "VOIDED"
         /\ \A k \in 1..Len(sales[id].items) :
              sales'[id].items[k].returnedQty = sales[id].items[k].returnedQty
         /\ {k \in 1..Len(movements') :
               movements'[k].referenceId = id
                 /\ movements'[k].type \in {"VOID", "RETURN"}}
              = CompensationsOf(id)

\* C27 (VOIDED is terminal): once a sale is VOIDED, by voidSale or by a full
\* return, no later or concurrently running voidSale or createReturn changes
\* its status back to PARTIAL_RETURN or COMPLETED, changes an item's
\* returnedQty, or records further VOID or RETURN movements referencing it.
C27_VoidedIsTerminal == [][C27_StaysVoided]_vars

\* the voidSale calls on sale id that succeeded
VoidsDone(id) ==
  {c \in Calls : calls[c].op = "void" /\ calls[c].saleId = id
                   /\ calls[c].pc = "done" /\ calls[c].result = "ok"}

\* the VOID movements that reference sale id for product p
VoidMovements(id, p) ==
  {k \in 1..Len(movements) :
     movements[k].type = "VOID" /\ movements[k].referenceId = id
       /\ movements[k].productId = p}

\* C28 (at most one void per sale under concurrency): whatever the
\* interleaving of concurrent voidSale calls on one sale, at most one of them
\* succeeds and, in every reachable state, each SaleItem of the sale has at
\* most one VOID movement referencing the sale.
C28_OneVoidPerSale ==
  \A id \in Calls :
    /\ Cardinality(VoidsDone(id)) <= 1
    /\ \A k \in 1..Len(sales[id].items) :
         Cardinality(VoidMovements(id, sales[id].items[k].productId)) <= 1

\* the sum of the quantities of the movements of the given types that
\* reference sale id for product p, among the first k movements
RECURSIVE MovedFor(_, _, _, _)
MovedFor(id, p, types, k) ==
  IF k = 0 THEN 0
  ELSE MovedFor(id, p, types, k - 1)
         + (IF movements[k].referenceId = id /\ movements[k].productId = p
               /\ movements[k].type \in types
            THEN movements[k].quantity ELSE 0)

\* C29 (compensations never restore more than was sold): in every reachable
\* state, for every sale and product, what the RETURN and VOID movements
\* referencing the sale put back into stock is at most what the sale's SALE
\* movement took out, for any sequence of createReturn and voidSale calls.
C29_RestoredAtMostSold ==
  \A id \in Calls : \A p \in Products :
    MovedFor(id, p, {"RETURN", "VOID"}, Len(movements))
      <= -MovedFor(id, p, {"SALE"}, Len(movements))

\* the quantity of product p on the first k items of a return
RECURSIVE ReturnedOn(_, _, _)
ReturnedOn(items, p, k) ==
  IF k = 0 THEN 0
  ELSE ReturnedOn(items, p, k - 1)
         + (IF items[k].productId = p THEN items[k].quantity ELSE 0)

\* the quantity of product p on the ReturnItems of the first j returns of
\* sale id
RECURSIVE ReturnItemsFor(_, _, _)
ReturnItemsFor(id, p, j) ==
  IF j = 0 THEN 0
  ELSE ReturnItemsFor(id, p, j - 1)
         + (IF returns[j].saleId = id
            THEN ReturnedOn(returns[j].items, p, Len(returns[j].items))
            ELSE 0)

\* C30 (return accounting is consistent): in every reachable state, for every
\* SaleItem, returnedQty is the sum of the quantities of the ReturnItems
\* recorded for that sale and product, which is the sum of the deltas of the
\* RETURN movements referencing that sale and product, also when a request
\* lists a product on several lines and when returns run concurrently.
C30_ReturnAccounting ==
  \A id \in Calls : \A k \in 1..Len(sales[id].items) :
    LET p == sales[id].items[k].productId
    IN  /\ sales[id].items[k].returnedQty = ReturnItemsFor(id, p, Len(returns))
        /\ ReturnItemsFor(id, p, Len(returns))
             = MovedFor(id, p, {"RETURN"}, Len(movements))

====
